---- MODULE Spec2Model ----
(***************************************************************************)
(* Model of test-api-2/src/main.py: a FastAPI service that probes two      *)
(* optional libraries at import time, registers seven GET handlers, parses *)
(* its listening port from the command line and is served by uvicorn on    *)
(* loopback until /shutdown calls os._exit(0).                             *)
(*                                                                         *)
(* Python values are modelled structurally: a dict is a record, a list is  *)
(* a sequence, a str is a string, None and module objects are records      *)
(* tagged by their type.  sys.argv is 0-based in Python and 1-based here:  *)
(* sys.argv[0] is argv[1] and sys.argv[1] is argv[2].                      *)
(***************************************************************************)
EXTENDS Integers, Sequences, FiniteSets, TLC

VARIABLES
    environ,            \* os.environ restricted to the key API_NAME
    site_packages,      \* what `import numpy` / `import pandas` find
    argv,               \* sys.argv
    pc,                 \* position of the main thread
    API_NAME,
    numpy_available,
    np,
    pandas_available,
    pd,
    routes,             \* app.routes, in registration order
    port,
    server,             \* host/port handed to uvicorn.run
    requests            \* requests sent by clients, in order of arrival

vars == <<environ, site_packages, argv, pc, API_NAME, numpy_available, np,
          pandas_available, pd, routes, port, server, requests>>

startupVars == <<API_NAME, numpy_available, np, pandas_available, pd,
                 routes, port, server>>

envVars == <<environ, site_packages, argv>>

-----------------------------------------------------------------------------
(* Bounds of the model *)

MaxArgLen == 5          \* longest first command-line argument
MaxReq == 2             \* number of requests clients send in a run

(* Program constants *)

DefaultPort == 8000
MaxPort == 65535

-----------------------------------------------------------------------------
(* Python values *)

None == [type |-> "NoneType"]

Module(name, fault) ==
    [type |-> "module", name |-> name,
     version |-> name \o "-version", file |-> name \o "/__init__.py",
     fault |-> fault]

\* bool(x) for the values the program tests: None is falsy, a module is truthy
Truthy(x) == x.type # "NoneType"

sys_version == "python-version"
sys_executable == "python-executable"

-----------------------------------------------------------------------------
(* int(str): surrounding whitespace stripped, an optional sign, then decimal
   digits in which single underscores may separate digits; anything else
   raises ValueError. *)

Digits == {"0", "7"}
Chars == Digits \cup {"+", "-", "_", " ", "x"}

DigitValue(c) == CASE c = "0" -> 0 [] c = "7" -> 7

RECURSIVE LStrip(_)
LStrip(s) == IF s # <<>> /\ Head(s) = " " THEN LStrip(Tail(s)) ELSE s

RECURSIVE RStrip(_)
RStrip(s) ==
    IF s # <<>> /\ s[Len(s)] = " " THEN RStrip(SubSeq(s, 1, Len(s) - 1)) ELSE s

ValueError == [ok |-> FALSE, value |-> 0]

\* scans the digit part left to right; prev is "start", "digit" or "_"
RECURSIVE ScanDigits(_, _, _)
ScanDigits(s, acc, prev) ==
    IF s = <<>>
    THEN IF prev = "digit" THEN [ok |-> TRUE, value |-> acc] ELSE ValueError
    ELSE IF Head(s) \in Digits
         THEN ScanDigits(Tail(s), acc * 10 + DigitValue(Head(s)), "digit")
         ELSE IF Head(s) = "_" /\ prev = "digit"
              THEN ScanDigits(Tail(s), acc, "_")
              ELSE ValueError

int(s) ==
    LET t == RStrip(LStrip(s))
        signed == t # <<>> /\ Head(t) \in {"+", "-"}
        body == IF signed THEN Tail(t) ELSE t
        r == ScanDigits(body, 0, "start")
    IN IF r.ok /\ signed /\ Head(t) = "-"
       THEN [ok |-> TRUE, value |-> 0 - r.value]
       ELSE r

-----------------------------------------------------------------------------
(* The environment the process starts in *)

Installed == {"absent", "ok", "faulty"}

ScriptName == <<"m">>

\* the command lines whose first argument is a: the argument alone, or
\* followed by a second one
ArgvWith(a) == {<<ScriptName, a>>, <<ScriptName, a, <<"7">> >>}

SomeArgv ==
    {<<ScriptName>>, <<ScriptName, <<"7", "0", "0", "7">> >>,
     <<ScriptName, <<"-", "1">> >>}

\* os.environ as a set of <<key, value>> pairs
AllEnviron == {{}, {<<"API_NAME", "My API">>}}

\* os.environ.get(key, default)
environ_get(key, default) ==
    IF \E kv \in environ : kv[1] = key
    THEN (CHOOSE kv \in environ : kv[1] = key)[2]
    ELSE default

AllSitePackages == [numpy : Installed, pandas : Installed]

InitWith(Environs, Sites) ==
    /\ environ \in Environs
    /\ site_packages \in Sites
    /\ pc = "import"
    /\ API_NAME = None
    /\ numpy_available = FALSE
    /\ np = None
    /\ pandas_available = FALSE
    /\ pd = None
    /\ routes = <<>>
    /\ port = None
    /\ server = None
    /\ requests = <<>>

Init == argv \in SomeArgv /\ InitWith(AllEnviron, AllSitePackages)

-----------------------------------------------------------------------------
(* Module top level, lines 9-45: API_NAME and the import verification *)

\* `import <name>`: raises when the package is absent, else binds the module
Import(name, found) ==
    IF found = "absent" THEN None ELSE Module(name, found = "faulty")

ImportVerification ==
    /\ pc = "import"
    /\ API_NAME' = environ_get("API_NAME", "Test API")
    /\ np' = Import("numpy", site_packages.numpy)
    /\ numpy_available' = (site_packages.numpy # "absent")
    /\ pd' = Import("pandas", site_packages.pandas)
    /\ pandas_available' = (site_packages.pandas # "absent")
    /\ pc' = "create_app"
    /\ UNCHANGED <<envVars, routes, port, server, requests>>

-----------------------------------------------------------------------------
(* Lines 48-218: the application object and its routes *)

\* FastAPI(title=..., version=...) with the default openapi_url, docs_url and
\* redoc_url installs its documentation routes on construction
FrameworkRoutes ==
    << [path |-> "/openapi.json", name |-> "openapi",
        methods |-> {"GET", "HEAD"}, kind |-> "Route"],
       [path |-> "/docs", name |-> "swagger_ui_html",
        methods |-> {"GET", "HEAD"}, kind |-> "Route"],
       [path |-> "/docs/oauth2-redirect", name |-> "swagger_ui_redirect",
        methods |-> {"GET", "HEAD"}, kind |-> "Route"],
       [path |-> "/redoc", name |-> "redoc_html",
        methods |-> {"GET", "HEAD"}, kind |-> "Route"] >>

\* @app.get(path) on the handler called name
app_get(path, name) ==
    [path |-> path, name |-> name, methods |-> {"GET"}, kind |-> "APIRoute"]

RegisteredRoutes ==
    << app_get("/", "root"),
       app_get("/health", "health"),
       app_get("/debug/imports", "debug_imports"),
       app_get("/debug/routes", "debug_routes"),
       app_get("/info", "info"),
       app_get("/test", "test"),
       app_get("/shutdown", "shutdown") >>

CreateApp ==
    /\ pc = "create_app"
    /\ routes' = FrameworkRoutes \o RegisteredRoutes
    /\ pc' = "main"
    /\ UNCHANGED <<envVars, API_NAME, numpy_available, np, pandas_available,
                   pd, port, server, requests>>

-----------------------------------------------------------------------------
(* Lines 220-242: port selection and uvicorn.run *)

\* the port read from the last argument instead of the first
SelectPort_LastArg ==
    IF Len(argv) > 1
    THEN IF int(argv[Len(argv)]).ok THEN int(argv[Len(argv)]).value
         ELSE DefaultPort
    ELSE DefaultPort

SelectPort ==
    IF Len(argv) > 1
    THEN IF int(argv[2]).ok THEN int(argv[2]).value ELSE DefaultPort
    ELSE DefaultPort

Main ==
    /\ pc = "main"
    /\ port' = SelectPort
    /\ pc' = "run"
    /\ UNCHANGED <<envVars, API_NAME, numpy_available, np, pandas_available,
                   pd, routes, server, requests>>

\* uvicorn.run(app, host="127.0.0.1", port=port): the listening socket is
\* bound to the host and port given; a port outside 0..65535 cannot be bound
\* and the process ends without serving
UvicornRun ==
    /\ pc = "run"
    /\ IF port \in 0..MaxPort
       THEN /\ server' = [host |-> "127.0.0.1", port |-> port]
            /\ pc' = "serving"
       ELSE /\ server' = server
            /\ pc' = "bind_failed"
    /\ UNCHANGED <<envVars, API_NAME, numpy_available, np, pandas_available,
                   pd, routes, port, requests>>

Startup == ImportVerification \/ CreateApp \/ Main \/ UvicornRun

\* every command line: the script alone, or the script and a first argument
\* of up to MaxArgLen characters
InitPort ==
    /\ \/ argv = <<ScriptName>>
       \/ \E k \in 0..MaxArgLen : \E a \in [1..k -> Chars] : argv \in ArgvWith(a)
    /\ InitWith({{}}, {[numpy |-> "ok", pandas |-> "ok"]})

SpecPort == InitPort /\ [][Startup]_vars

-----------------------------------------------------------------------------
(* Requests.  A request is pending from its arrival until its handler is
   called, handled once the handler has returned and the framework holds
   the response, and responded once the response has been written to the
   connection.  The handlers are coroutines without an await, so each runs
   to completion in one step of the event loop. *)

Paths == {"/", "/health", "/debug/imports", "/debug/routes", "/info",
          "/test", "/shutdown"}

\* what a handler call produces: the returned value, or the exception that
\* escaped it
Return(v) == [raised |-> FALSE, value |-> v]
Raise(e) == [raised |-> TRUE, value |-> e]

\* the framework's response to a handler call: a returned dict is sent as
\* JSON with status 200, an escaped exception as a 500
Response(result) ==
    IF result.raised
    THEN [status_code |-> 500, body |-> "Internal Server Error"]
    ELSE [status_code |-> 200, body |-> result.value]

ClientSend(path) ==
    /\ pc \in {"serving", "exited"}
    /\ Len(requests) < MaxReq
    /\ requests' = Append(requests,
                          [path |-> path, stage |-> "pending", response |-> None])
    /\ UNCHANGED <<envVars, pc, startupVars>>

\* the route the router matches the request against
Routed(i, name) ==
    /\ pc = "serving"
    /\ i \in 1..Len(requests)
    /\ requests[i].stage = "pending"
    /\ \E k \in 1..Len(routes) :
          /\ routes[k].path = requests[i].path
          /\ routes[k].name = name
          /\ "GET" \in routes[k].methods

Handled(i, result) ==
    requests' = [requests EXCEPT ![i].stage = "handled",
                                 ![i].response = Response(result)]

\* lines 59-66
root_result ==
    Return([status |-> "ok",
            message |-> API_NAME \o " is running",
            api_name |-> API_NAME])

root(i) ==
    /\ Routed(i, "root")
    /\ Handled(i, root_result)
    /\ UNCHANGED <<envVars, pc, startupVars>>

\* health reporting a missing library as a degraded service
health_result_degraded ==
    Return([status |-> IF numpy_available /\ pandas_available
                       THEN "healthy" ELSE "degraded",
            api_name |-> API_NAME,
            message |-> "All systems operational",
            numpy_available |-> numpy_available,
            pandas_available |-> pandas_available])

\* lines 68-77
health_result ==
    Return([status |-> "healthy",
            api_name |-> API_NAME,
            message |-> "All systems operational",
            numpy_available |-> numpy_available,
            pandas_available |-> pandas_available])

health(i) ==
    /\ Routed(i, "health")
    /\ Handled(i, health_result)
    /\ UNCHANGED <<envVars, pc, startupVars>>

\* lines 79-99
debug_imports_result ==
    LET import_status ==
            [numpy |-> [available |-> numpy_available,
                        version |-> IF numpy_available THEN np.version ELSE None,
                        path |-> IF numpy_available THEN np.file ELSE None],
             pandas |-> [available |-> pandas_available,
                         version |-> IF pandas_available THEN pd.version ELSE None,
                         path |-> IF pandas_available THEN pd.file ELSE None]]
    IN Return([api_name |-> API_NAME,
               imports |-> import_status,
               python_version |-> sys_version,
               executable |-> sys_executable])

debug_imports(i) ==
    /\ Routed(i, "debug_imports")
    /\ Handled(i, debug_imports_result)
    /\ UNCHANGED <<envVars, pc, startupVars>>

\* lines 101-116: every route of app.routes has a path, a name and methods
debug_routes_result ==
    LET listed == [k \in 1..Len(routes) |->
                      [path |-> routes[k].path,
                       name |-> routes[k].name,
                       methods |-> routes[k].methods]]
    IN Return([api_name |-> API_NAME,
               total_routes |-> Len(listed),
               routes |-> listed])

debug_routes(i) ==
    /\ Routed(i, "debug_routes")
    /\ Handled(i, debug_routes_result)
    /\ UNCHANGED <<envVars, pc, startupVars>>

\* the list as it stood before /shutdown was added to it
info_endpoints_stale ==
    << [path |-> "/", method |-> "GET", description |-> "Root endpoint"],
       [path |-> "/health", method |-> "GET", description |-> "Health check"],
       [path |-> "/info", method |-> "GET", description |-> "API information"],
       [path |-> "/test", method |-> "GET",
        description |-> "Test endpoint with sample data"],
       [path |-> "/debug/imports", method |-> "GET",
        description |-> "Import status"],
       [path |-> "/debug/routes", method |-> "GET",
        description |-> "Registered routes"] >>

\* lines 126-134
info_endpoints ==
    << [path |-> "/", method |-> "GET", description |-> "Root endpoint"],
       [path |-> "/health", method |-> "GET", description |-> "Health check"],
       [path |-> "/info", method |-> "GET", description |-> "API information"],
       [path |-> "/test", method |-> "GET",
        description |-> "Test endpoint with sample data"],
       [path |-> "/debug/imports", method |-> "GET",
        description |-> "Import status"],
       [path |-> "/debug/routes", method |-> "GET",
        description |-> "Registered routes"],
       [path |-> "/shutdown", method |-> "GET",
        description |-> "Shutdown endpoint"] >>

\* lines 118-135
info_result ==
    Return([api_name |-> API_NAME,
            version |-> "1.0.0",
            numpy_available |-> numpy_available,
            pandas_available |-> pandas_available,
            endpoints |-> info_endpoints])

info(i) ==
    /\ Routed(i, "info")
    /\ Handled(i, info_result)
    /\ UNCHANGED <<envVars, pc, startupVars>>

\* line 144
sample_list == <<1, 2, 3, 4, 5>>

numpy_processing_unscaled ==
    IF np.fault THEN Raise("numpy fault") ELSE Return(sample_list)

\* lines 153-154: (np.array(sample_list) * 10).tolist(); a faulty numpy raises
numpy_processing ==
    IF np.fault
    THEN Raise("numpy fault")
    ELSE Return([k \in 1..Len(sample_list) |-> sample_list[k] * 10])

\* lines 172-176: the DataFrame of two columns as a list of row records; a
\* faulty pandas raises
pandas_processing ==
    IF pd.fault
    THEN Raise("pandas fault")
    ELSE Return([k \in 1..Len(sample_list) |->
                    [column_a |-> sample_list[k],
                     column_b |-> sample_list[k] * 2]])

format_exc(e) == "Traceback (most recent call last): " \o e

\* lines 151-166: the numpy branch with its try/except
numpy_branch ==
    LET r == numpy_processing
    IN IF ~r.raised
       THEN [data_payload |-> r.value,
             data_type |-> "numpy_array_as_list",
             error_details |-> None]
       ELSE [data_payload |-> [error |-> "Numpy processing failed: " \o r.value],
             data_type |-> "error",
             error_details |-> [stage |-> "numpy_processing",
                                error |-> r.value,
                                traceback |-> format_exc(r.value)]]

\* lines 170-188: the pandas branch with its try/except
pandas_branch ==
    LET r == pandas_processing
    IN IF ~r.raised
       THEN [data_payload |-> r.value,
             data_type |-> "pandas_dataframe_as_dict",
             error_details |-> None]
       ELSE [data_payload |-> [error |-> "Pandas processing failed: " \o r.value],
             data_type |-> "error",
             error_details |-> [stage |-> "pandas_processing",
                                error |-> r.value,
                                traceback |-> format_exc(r.value)]]

\* lines 189-197
neither_branch ==
    [data_payload |-> [error |-> "Neither numpy nor pandas is available"],
     data_type |-> "error",
     error_details |-> [stage |-> "import",
                        error |-> "Neither numpy nor pandas is available",
                        numpy_available |-> numpy_available,
                        pandas_available |-> pandas_available]]

test_locals_pandas_first ==
    IF pandas_available /\ Truthy(pd) THEN pandas_branch
    ELSE IF numpy_available /\ Truthy(np) THEN numpy_branch
    ELSE neither_branch

\* lines 144-197: data_payload, data_type and error_details
test_locals ==
    IF numpy_available /\ Truthy(np) THEN numpy_branch
    ELSE IF pandas_available /\ Truthy(pd) THEN pandas_branch
    ELSE neither_branch

\* lines 199-210
test_response(l, message) ==
    LET response ==
            [status |-> IF l.data_type # "error" THEN "success" ELSE "error",
             api_name |-> API_NAME,
             data_type |-> l.data_type,
             data |-> l.data_payload,
             message |-> message]
    IN IF l.error_details # None
       THEN response @@ [error_details |-> l.error_details]
       ELSE response

\* the handler without its try/except: the exception escapes
test_result_unguarded ==
    IF numpy_available /\ Truthy(np) /\ numpy_processing.raised
    THEN Raise(numpy_processing.value)
    ELSE IF ~numpy_available /\ pandas_available /\ Truthy(pd)
            /\ pandas_processing.raised
    THEN Raise(pandas_processing.value)
    ELSE Return(test_response(test_locals, "This is test data from " \o API_NAME))

\* the handler numbering its replies
test_result_counting ==
    Return(test_response(test_locals,
        "This is test data from " \o API_NAME \o " #" \o ToString(Len(requests))))

\* lines 137-210
test_result ==
    Return(test_response(test_locals, "This is test data from " \o API_NAME))

\* the handler giving up on numpy after a failed transform
test_disabling(i) ==
    /\ Routed(i, "test")
    /\ Handled(i, test_result)
    /\ numpy_available' = (numpy_available /\ ~(Truthy(np) /\ np.fault))
    /\ UNCHANGED <<envVars, pc, API_NAME, np, pandas_available, pd, routes,
                   port, server>>

\* lines 137-210
test(i) ==
    /\ Routed(i, "test")
    /\ Handled(i, test_result)
    /\ UNCHANGED <<envVars, pc, startupVars>>

\* the handler returning instead of ending the process
shutdown_returning(i) ==
    /\ Routed(i, "shutdown")
    /\ Handled(i, Return([status |-> "shutting down"]))
    /\ UNCHANGED <<envVars, pc, startupVars>>

\* lines 212-218: os._exit(0) ends the process inside the handler, which
\* never returns
shutdown(i) ==
    /\ Routed(i, "shutdown")
    /\ requests' = [requests EXCEPT ![i].stage = "called"]
    /\ pc' = "exited"
    /\ UNCHANGED <<envVars, startupVars>>

\* the running server writes a finished response to its connection
SendResponse(i) ==
    /\ pc = "serving"
    /\ i \in 1..Len(requests)
    /\ requests[i].stage = "handled"
    /\ requests' = [requests EXCEPT ![i].stage = "responded"]
    /\ UNCHANGED <<envVars, pc, startupVars>>

Next ==
    \/ ImportVerification
    \/ CreateApp
    \/ Main
    \/ UvicornRun
    \/ \E path \in Paths : ClientSend(path)
    \/ \E i \in 1..MaxReq : root(i)
    \/ \E i \in 1..MaxReq : health(i)
    \/ \E i \in 1..MaxReq : debug_imports(i)
    \/ \E i \in 1..MaxReq : debug_routes(i)
    \/ \E i \in 1..MaxReq : info(i)
    \/ \E i \in 1..MaxReq : test(i)
    \/ \E i \in 1..MaxReq : shutdown(i)
    \/ \E i \in 1..MaxReq : SendResponse(i)

Spec == Init /\ [][Next]_vars

-----------------------------------------------------------------------------
(* Port selection, stated independently of int() *)

\* a is written as a decimal numeral: only digits, no sign, no separators
IsDecimal(a) == a # <<>> /\ \A k \in 1..Len(a) : a[k] \in Digits

RECURSIVE Pow10(_)
Pow10(n) == IF n = 0 THEN 1 ELSE 10 * Pow10(n - 1)

RECURSIVE PlaceSum(_, _)
PlaceSum(a, k) ==
    IF k > Len(a) THEN 0
    ELSE DigitValue(a[k]) * Pow10(Len(a) - k) + PlaceSum(a, k + 1)

\* the first argument names a valid port number
IsValidPort(a) == IsDecimal(a) /\ PlaceSum(a, 1) \in 1..MaxPort

\* a is an integer literal of the language: optional blanks, an optional
\* sign, digits separated by at most one underscore, optional blanks
IsIntLiteral(a) ==
    \E i \in 1..Len(a), j \in 1..Len(a) :
        /\ i <= j
        /\ \A k \in 1..Len(a) : (k < i \/ k > j) => a[k] = " "
        /\ LET d == IF a[i] \in {"+", "-"} THEN SubSeq(a, i + 1, j)
                    ELSE SubSeq(a, i, j)
           IN /\ d # <<>>
              /\ d[1] \in Digits
              /\ d[Len(d)] \in Digits
              /\ \A k \in 1..Len(d) : d[k] \in Digits \cup {"_"}
              /\ \A k \in 1..(Len(d) - 1) : ~(d[k] = "_" /\ d[k + 1] = "_")

Started == pc \in {"serving", "bind_failed", "exited"}

\* C1: once uvicorn.run has been reached, a first argument that is a valid
\* port number (1-65535) has the service listening on exactly that port on
\* 127.0.0.1, and an unparsable first argument or no argument at all has it
\* listening on port 8000 on 127.0.0.1.
C1_PortSelection ==
    Started =>
        /\ (Len(argv) > 1 /\ IsValidPort(argv[2])) =>
               /\ pc # "bind_failed"
               /\ server = [host |-> "127.0.0.1", port |-> PlaceSum(argv[2], 1)]
        /\ (Len(argv) = 1 \/ (Len(argv) > 1 /\ ~IsIntLiteral(argv[2]))) =>
               /\ pc # "bind_failed"
               /\ server = [host |-> "127.0.0.1", port |-> 8000]

\* the three cases of C1, each after the server has started
C1_WitnessValid ==
    /\ pc = "serving" /\ Len(argv) > 1 /\ IsValidPort(argv[2])
    /\ server.port = 7007
C1_WitnessFallback ==
    /\ pc = "serving" /\ Len(argv) > 1 /\ ~IsIntLiteral(argv[2])
    /\ server.port = 8000
C1_Witness ==
    /\ pc = "serving" /\ Len(argv) = 3 /\ argv[2] = <<"7", "0", "0", "7">>
    /\ server.port = 7007

-----------------------------------------------------------------------------
(* Properties of the served requests *)

Range(f) == {f[k] : k \in DOMAIN f}

\* the requests to path whose handler has returned
Answered(path) ==
    {i \in 1..Len(requests) :
        requests[i].path = path /\ requests[i].stage \in {"handled", "responded"}}

Body(i) == requests[i].response.body

IsErrorBody(b) == b.data_type = "error" /\ "error" \in DOMAIN b.data

ScaledTenfold == <<10, 20, 30, 40, 50>>

RowRecords ==
    << [column_a |-> 1, column_b |-> 2], [column_a |-> 2, column_b |-> 4],
       [column_a |-> 3, column_b |-> 6], [column_a |-> 4, column_b |-> 8],
       [column_a |-> 5, column_b |-> 10] >>

\* C2 as stated: numpy unavailable gives data_type "error" with an "error"
\* key in data; numpy available gives the numpy data_type and data equal to
\* [10,20,30,40,50].
C2_AsStated ==
    \A i \in Answered("/test") :
        /\ ~numpy_available => IsErrorBody(Body(i))
        /\ numpy_available =>
              /\ Body(i).data_type = "numpy_array_as_list"
              /\ Body(i).data = ScaledTenfold

\* C2 amended: with neither library available /test answers data_type
\* "error" and data holding an "error" key; with numpy unavailable, pandas
\* available and its transform succeeding it answers data_type
\* "pandas_dataframe_as_dict" and the five row records; with numpy available
\* and its transform succeeding it answers data_type "numpy_array_as_list"
\* and data [10,20,30,40,50].
C2_TestData ==
    \A i \in Answered("/test") :
        /\ (~numpy_available /\ ~pandas_available) => IsErrorBody(Body(i))
        /\ (~numpy_available /\ pandas_available /\ ~pd.fault) =>
              /\ Body(i).data_type = "pandas_dataframe_as_dict"
              /\ Body(i).data = RowRecords
        /\ (numpy_available /\ ~np.fault) =>
              /\ Body(i).data_type = "numpy_array_as_list"
              /\ Body(i).data = ScaledTenfold

C2_Witness ==
    /\ numpy_available /\ ~np.fault
    /\ \E i \in Answered("/test") : Body(i).data = ScaledTenfold

\* the case the amendment adds: pandas answers when numpy is unavailable
C2_WitnessPandas ==
    /\ ~numpy_available /\ pandas_available
    /\ \E i \in Answered("/test") : Body(i).data_type = "pandas_dataframe_as_dict"

ShutdownCalled ==
    \E i \in 1..Len(requests) :
        requests[i].path = "/shutdown" /\ requests[i].stage # "pending"

InfoPaths(i) == {e.path : e \in Range(Body(i).endpoints)}

\* C4 as stated: the paths /info lists are exactly the paths of app.routes,
\* the set /debug/routes reports.
C4_AsStated ==
    \A i \in Answered("/info") :
        InfoPaths(i) = {r.path : r \in Range(debug_routes_result.value.routes)}

\* C4 amended: the paths /info lists are exactly the paths of the handlers
\* the application registers itself with @app.get; app.routes, which
\* /debug/routes reports, holds these and the framework's documentation
\* routes besides.
C4_InfoListsOwnRoutes ==
    \A i \in Answered("/info") :
        /\ InfoPaths(i) = {r.path : r \in {q \in Range(routes) : q.kind = "APIRoute"}}
        /\ InfoPaths(i) \subseteq
              {r.path : r \in Range(debug_routes_result.value.routes)}
        /\ Len(Body(i).endpoints) = Cardinality(InfoPaths(i))

C4_Witness ==
    \E i \in Answered("/info") :
        "/shutdown" \in InfoPaths(i) /\ debug_routes_result.value.total_routes = 11

C6_HealthAlwaysHealthy ==
    /\ \A i \in Answered("/health") :
          /\ requests[i].response.status_code = 200
          /\ Body(i).status = "healthy"
    /\ \A i \in 1..Len(requests) :
          (pc = "serving" /\ requests[i].path = "/health"
              /\ requests[i].stage = "pending") => ENABLED health(i)

C6_Witness ==
    /\ ~numpy_available /\ ~pandas_available
    /\ \E i \in Answered("/health") :
          i = MaxReq /\ requests[i].stage = "responded"

\* C7: no step taken once the server has started changes API_NAME, the
\* port, the listening address, the availability flags, the loaded modules
\* or the registered routes.
C7_HandlersChangeNoState ==
    [][pc = "serving" =>
          /\ API_NAME' = API_NAME
          /\ port' = port
          /\ server' = server
          /\ numpy_available' = numpy_available
          /\ pandas_available' = pandas_available
          /\ np' = np
          /\ pd' = pd
          /\ routes' = routes]_vars

C7_Witness ==
    /\ pc = "serving"
    /\ Len(requests) = MaxReq
    /\ \A i \in 1..Len(requests) :
          requests[i].path # "/shutdown" /\ requests[i].stage = "responded"
    /\ Answered("/test") # {}
    /\ numpy_available = (site_packages.numpy # "absent")
    /\ site_packages.numpy = "faulty"

ByNumpy(b) ==
    \/ b.data_type = "numpy_array_as_list"
    \/ b.data_type = "error" /\ b.error_details.stage = "numpy_processing"

ByPandas(b) ==
    \/ b.data_type = "pandas_dataframe_as_dict"
    \/ b.data_type = "error" /\ b.error_details.stage = "pandas_processing"

C10_PandasAfterNumpyFailure ==
    \A i \in Answered("/test") :
        (pandas_available /\ (~numpy_available \/ np.fault)) =>
            /\ ByPandas(Body(i))
            /\ ~pd.fault => Body(i).data_type = "pandas_dataframe_as_dict"

====
